---- MODULE Spec2Model ----
(***************************************************************************)
(* A model of evm-cfg-py: the three CFG builders (the dynamic transaction  *)
(* builder of cfg_transaction.py, the dynamic per-contract builder of      *)
(* cfg_contract.py and the static builder of cfg_static_complete.py with   *)
(* its stack value analyzer).                                              *)
(*                                                                         *)
(* Strings that the code compares stay strings here: addresses, opcode     *)
(* names and the hexadecimal pc strings ("0x0", "0x1f").  A CFG node is a  *)
(* BlockNode wrapping one Block; the builders create at most one BlockNode *)
(* per dictionary key, so a node is written as its (address, start_pc)     *)
(* pair and a list of nodes may still hold the same pair twice.            *)
(***************************************************************************)
EXTENDS Integers, Sequences, FiniteSets, TLC

VARIABLES
    tx_pc,          \* construct_cfg: where the call stands
    ct_pc,          \* connect_contract_cfg: where the call stands
    st_pc,          \* build_static_cfg: where the call stands
    steps,          \* the standardized trace's step list (dynamic builders)
    all_blocks,     \* the basic blocks handed to the builders
    tx_cfg,         \* construct_cfg: cfg
    tx_processed,   \* construct_cfg: processed_nodes (its keys)
    tx_idx,         \* construct_cfg: current_step_idx
    tx_current,     \* construct_cfg: current_node
    ct_address,     \* ContractCFGConnector.contract_address
    ct_steps,       \* connect_contract_cfg: contract_steps
    ct_cfg,         \* connect_contract_cfg: cfg
    ct_processed,   \* connect_contract_cfg: processed_nodes (its keys)
    ct_idx,         \* connect_contract_cfg: current_step_idx
    ct_current,     \* connect_contract_cfg: current_node
    instructions,   \* SimpleStackValueAnalyzer.instructions (static builder)
    st_cfg,         \* build_static_cfg: cfg
    node_map,       \* build_static_cfg: node_map (its keys)
    st_idx,         \* build_static_cfg: index of the block loop
    sva_calls,      \* the get_jump_target calls made so far: <<jump_pc, result>>
    main_pc,        \* main: where the run stands
    main_error,     \* main: the exception caught by its except clause, "" if none
    exit_code,      \* the exit status of the process, -1 while it runs
    tx_to,          \* the "to" field of the transaction (_get_initial_address)
    struct_logs,    \* get_standardized_trace: struct_logs
    tf_idx,         \* get_standardized_trace: index of the step loop
    current_address, \* get_standardized_trace: current_address
    next_address,   \* get_standardized_trace: next_address
    call_stack,     \* get_standardized_trace: call_stack
    tf_steps,       \* get_standardized_trace: steps
    tf_stacks       \* call_stack as it stood when each step was read

vars == <<tx_pc, ct_pc, st_pc, steps, all_blocks, tx_cfg, tx_processed, tx_idx, tx_current,
          ct_address, ct_steps, ct_cfg, ct_processed, ct_idx, ct_current,
          instructions, st_cfg, node_map, st_idx, sva_calls,
          main_pc, main_error, exit_code, tx_to, struct_logs, tf_idx,
          current_address, next_address, call_stack, tf_steps, tf_stacks>>

txVars == <<tx_pc, tx_cfg, tx_processed, tx_idx, tx_current>>
ctVars == <<ct_pc, ct_address, ct_steps, ct_cfg, ct_processed, ct_idx, ct_current>>
stVars == <<st_pc, instructions, st_cfg, node_map, st_idx, sva_calls>>
mainVars == <<main_pc, main_error, exit_code>>
tfVars == <<tx_to, struct_logs, tf_idx, current_address, next_address, call_stack,
            tf_steps, tf_stacks>>

\* ------------------------------------------------------------------------
\* Bounds of the model

\* longest trace over the representative opcodes
MaxSteps == 3
\* longest contract code, in instructions, given to the static builder
MaxCode == 4
\* longest raw trace over every kind of raw step
MaxRaw == 3
\* longest raw trace over the steps that open and close frames
MaxDeep == 6
\* longest trace made of block-ending steps only
MaxWalk == 4
\* highest n of the DUPn opcodes given to the stack-value analyzer
MaxDup == 3
\* longest run of pushes in front of a jump in the codes with a DUP
MaxPushes == 3

\* ------------------------------------------------------------------------
\* Sequence helpers

Range(s) == {s[i] : i \in 1..Len(s)}

RECURSIVE SeqFilter(_, _)
\* the elements of s that belong to the set keep, in order
SeqFilter(s, keep) ==
    IF s = <<>> THEN <<>>
    ELSE IF Head(s) \in keep THEN <<Head(s)>> \o SeqFilter(Tail(s), keep)
         ELSE SeqFilter(Tail(s), keep)

RECURSIVE SeqsUpTo(_, _)
\* every sequence over S of length at most n
SeqsUpTo(S, n) ==
    IF n = 0 THEN {<<>>}
    ELSE LET shorter == SeqsUpTo(S, n - 1)
         IN  shorter \cup {Append(s, x) : s \in {t \in shorter : Len(t) = n - 1}, x \in S}

\* ------------------------------------------------------------------------
\* Hexadecimal pc strings: Web3.to_hex(int) and int(str, 16)

HexDigit == <<"0", "1", "2", "3", "4", "5", "6", "7",
              "8", "9", "a", "b", "c", "d", "e", "f">>

RECURSIVE HexDigits(_)
HexDigits(n) ==
    IF n < 16 THEN HexDigit[n + 1]
    ELSE HexDigits(n \div 16) \o HexDigit[(n % 16) + 1]

\* Web3.to_hex of an integer: hex(n), no zero padding, "-0x.." when negative
ToHex(n) == IF n < 0 THEN "-0x" \o HexDigits(0 - n) ELSE "0x" \o HexDigits(n)

\* int(pc, 16) of a pc string of a block: the number whose hex string it is
FromHex(s) == CHOOSE n \in 0..255 : ToHex(n) = s

\* ------------------------------------------------------------------------
\* Instructions, as pyevmasm's disassemble_all lists them

PushNames == <<"PUSH1", "PUSH2", "PUSH3", "PUSH4", "PUSH5", "PUSH6", "PUSH7",
               "PUSH8", "PUSH9", "PUSH10", "PUSH11", "PUSH12", "PUSH13",
               "PUSH14", "PUSH15", "PUSH16", "PUSH17", "PUSH18", "PUSH19",
               "PUSH20", "PUSH21", "PUSH22", "PUSH23", "PUSH24", "PUSH25",
               "PUSH26", "PUSH27", "PUSH28", "PUSH29", "PUSH30", "PUSH31",
               "PUSH32">>
DupNames == <<"DUP1", "DUP2", "DUP3", "DUP4", "DUP5", "DUP6", "DUP7", "DUP8",
              "DUP9", "DUP10", "DUP11", "DUP12", "DUP13", "DUP14", "DUP15",
              "DUP16">>
SwapNames == <<"SWAP1", "SWAP2", "SWAP3", "SWAP4", "SWAP5", "SWAP6", "SWAP7",
               "SWAP8", "SWAP9", "SWAP10", "SWAP11", "SWAP12", "SWAP13",
               "SWAP14", "SWAP15", "SWAP16">>

\* name.startswith("PUSH") and int(name[4:]), and the same for DUP and SWAP
IsPush(name) == name \in Range(PushNames)
IsDup(name) == name \in Range(DupNames)
IsSwap(name) == name \in Range(SwapNames)
NameIndex(names, name) == CHOOSE i \in 1..Len(names) : names[i] = name

\* an instruction before its pc is known: mnemonic and immediate operand
Ins(name, operand) == [name |-> name, operand |-> operand]

\* the byte length of an instruction in the bytecode
ByteLength(name) == IF IsPush(name) THEN 1 + NameIndex(PushNames, name) ELSE 1

RECURSIVE Disassemble(_, _)
\* the instruction list of a code, each instruction at its byte offset
Disassemble(code, at) ==
    IF code = <<>> THEN <<>>
    ELSE <<[pc |-> at, name |-> Head(code).name, operand |-> Head(code).operand]>>
         \o Disassemble(Tail(code), at + ByteLength(Head(code).name))

\* ------------------------------------------------------------------------
\* Basic blocks (BasicBlockProcessor)

BlockTerminators ==
    {"JUMP", "JUMPI", "STOP", "RETURN", "REVERT", "INVALID", "SELFDESTRUCT",
     "CALL", "CALLCODE", "DELEGATECALL", "STATICCALL", "CREATE", "CREATE2"}

\* the Block made of a non-empty run of instructions
MakeBlock(address, run) ==
    [address |-> address,
     start_pc |-> ToHex(run[1].pc),
     end_pc |-> ToHex(run[Len(run)].pc),
     instructions |-> [i \in 1..Len(run) |-> <<ToHex(run[i].pc), run[i].name>>],
     terminator |-> run[Len(run)].name]

RECURSIVE PartitionFrom(_, _, _)
\* split the rest of the instruction stream; run is the block being filled
PartitionFrom(address, rest, run) ==
    IF rest = <<>>
    THEN IF run = <<>> THEN <<>> ELSE <<MakeBlock(address, run)>>
    ELSE LET ins == Head(rest) IN
         IF ins.name \in BlockTerminators
         THEN <<MakeBlock(address, Append(run, ins))>>
              \o PartitionFrom(address, Tail(rest), <<>>)
         ELSE IF ins.name = "JUMPDEST" /\ run # <<>>
         THEN <<MakeBlock(address, run)>>
              \o PartitionFrom(address, Tail(rest), <<ins>>)
         ELSE PartitionFrom(address, Tail(rest), Append(run, ins))

\* the ordered basic blocks of one contract
Partition(address, instrs) == PartitionFrom(address, instrs, <<>>)

\* ------------------------------------------------------------------------
\* The CFG data structure (cfg_structure)

NewCFG(tx_hash) == [tx_hash |-> tx_hash, nodes |-> <<>>, edges |-> <<>>, next_edge_id |-> 0]

AddNode(cfg, node) == [cfg EXCEPT !.nodes = Append(@, node)]

AddEdge(cfg, source, target, edge_type) ==
    [cfg EXCEPT
        !.edges = Append(@, [edge_id |-> cfg.next_edge_id, source |-> source,
                             target |-> target, edge_type |-> edge_type]),
        !.next_edge_id = @ + 1]

RECURSIVE EdgesWithout(_, _)
\* the edges that do not touch node, in order
EdgesWithout(edges, node) ==
    IF edges = <<>> THEN <<>>
    ELSE IF Head(edges).source = node \/ Head(edges).target = node
         THEN EdgesWithout(Tail(edges), node)
         ELSE <<Head(edges)>> \o EdgesWithout(Tail(edges), node)

RemoveNode(cfg, node) ==
    [cfg EXCEPT !.nodes = SeqFilter(@, Range(@) \ {node}),
                !.edges = EdgesWithout(@, node)]

\* the key of no node: what current_node holds before the first node exists
NoNode == <<"", "">>

\* (block.address, block.start_pc) of every block of a list
BlockKeys(blocks) == {<<blocks[i].address, blocks[i].start_pc>> : i \in 1..Len(blocks)}

\* ------------------------------------------------------------------------
\* cfg_transaction.py: CFGConstructor

\* split_opcodes with SELFDESTRUCT misspelt, as a slip would leave it
TxSplitOpcodes_Typo ==
    {"JUMP", "JUMPI", "CALL", "CALLCODE", "DELEGATECALL", "STATICCALL",
     "CREATE", "CREATE2", "STOP", "RETURN", "REVERT", "INVALID", "SELFdestruct"}

\* split_opcodes of CFGConstructor
TxSplitOpcodes ==
    {"JUMP", "JUMPI", "CALL", "CALLCODE", "DELEGATECALL", "STATICCALL",
     "CREATE", "CREATE2", "STOP", "RETURN", "REVERT", "INVALID", "SELFDESTRUCT"}

\* _get_edge_type with the SELFDESTRUCT branch forgotten
TxGetEdgeType_NoDestruct(opcode) ==
    IF opcode \in {"JUMP", "JUMPI"} THEN "JUMP"
    ELSE IF opcode \in {"CALL", "CALLCODE", "DELEGATECALL", "STATICCALL"} THEN "CALL"
    ELSE IF opcode \in {"RETURN", "REVERT"} THEN "RETURN"
    ELSE IF opcode \in {"STOP", "INVALID"} THEN "TERMINATE"
    ELSE IF opcode \in {"CREATE", "CREATE2"} THEN "CREATE"
    ELSE "UNKNOWN"

\* _get_edge_type of CFGConstructor
TxGetEdgeType(opcode) ==
    IF opcode \in {"JUMP", "JUMPI"} THEN "JUMP"
    ELSE IF opcode \in {"CALL", "CALLCODE", "DELEGATECALL", "STATICCALL"} THEN "CALL"
    ELSE IF opcode \in {"RETURN", "REVERT"} THEN "RETURN"
    ELSE IF opcode = "SELFDESTRUCT" THEN "DESTRUCT"
    ELSE IF opcode \in {"STOP", "INVALID"} THEN "TERMINATE"
    ELSE IF opcode \in {"CREATE", "CREATE2"} THEN "CREATE"
    ELSE "UNKNOWN"

\* _find_base_block over an empty base_block_map: always its ValueError
TxFindBaseBlock_Empty(blocks, address, start) == NoNode

\* _find_base_block: the key of the block found, NoNode for its ValueError
TxFindBaseBlock(blocks, address, start) ==
    IF <<address, start>> \in BlockKeys(blocks) THEN <<address, start>> ELSE NoNode

\* the next node always created, processed_nodes never consulted
TxNextNode_AlwaysNew(cfg, processed, key) == AddNode(cfg, key)

\* the next node created but never added to the cfg
TxNextNode_NeverAdded(cfg, processed, key) == cfg

\* the cfg after the next node is reused from processed_nodes or created
TxNextNode(cfg, processed, key) ==
    IF key \in processed THEN cfg ELSE AddNode(cfg, key)

\* construct_cfg up to the loop: empty trace, first block, first node
TxStart ==
    /\ tx_pc = "start"
    /\ IF steps = <<>>
       THEN /\ tx_pc' = "returned"
            /\ UNCHANGED <<tx_cfg, tx_processed, tx_idx, tx_current>>
       ELSE LET first == TxFindBaseBlock(all_blocks, steps[1].address, steps[1].pc) IN
            IF first = NoNode
            THEN /\ tx_pc' = "raised"
                 /\ UNCHANGED <<tx_cfg, tx_processed, tx_idx, tx_current>>
            ELSE /\ tx_pc' = "loop"
                 /\ tx_cfg' = AddNode(tx_cfg, first)
                 /\ tx_processed' = tx_processed \cup {first}
                 /\ tx_current' = first
                 /\ UNCHANGED tx_idx
    /\ UNCHANGED <<steps, all_blocks>>
    /\ UNCHANGED ctVars
    /\ UNCHANGED stVars
    /\ UNCHANGED mainVars
    /\ UNCHANGED tfVars

\* the iteration without "current_node = next_node" after the edge
TxIterate_KeepsCurrent ==
    /\ tx_pc = "loop"
    /\ tx_idx < Len(steps)
    /\ LET current_opcode == steps[tx_idx + 1].opcode IN
       IF current_opcode \in TxSplitOpcodes
       THEN IF tx_idx + 1 >= Len(steps)
            THEN \* break, then return cfg
                 /\ tx_pc' = "returned"
                 /\ UNCHANGED <<tx_cfg, tx_processed, tx_idx, tx_current>>
            ELSE LET next_step == steps[tx_idx + 2]
                     next_key == TxFindBaseBlock(all_blocks, next_step.address, next_step.pc)
                 IN  IF next_key = NoNode
                     THEN \* warn, advance, continue
                          /\ tx_idx' = tx_idx + 1
                          /\ UNCHANGED <<tx_pc, tx_cfg, tx_processed, tx_current>>
                     ELSE /\ tx_cfg' = AddEdge(TxNextNode(tx_cfg, tx_processed, next_key),
                                               tx_current, next_key,
                                               TxGetEdgeType(current_opcode))
                          /\ tx_processed' = tx_processed \cup {next_key}
                          /\ UNCHANGED tx_current
                          /\ tx_idx' = tx_idx + 1
                          /\ UNCHANGED tx_pc
       ELSE /\ tx_idx' = tx_idx + 1
            /\ UNCHANGED <<tx_pc, tx_cfg, tx_processed, tx_current>>
    /\ UNCHANGED <<steps, all_blocks>>
    /\ UNCHANGED ctVars
    /\ UNCHANGED stVars
    /\ UNCHANGED mainVars
    /\ UNCHANGED tfVars

\* one iteration of construct_cfg's while loop
TxIterate ==
    /\ tx_pc = "loop"
    /\ tx_idx < Len(steps)
    /\ LET current_opcode == steps[tx_idx + 1].opcode IN
       IF current_opcode \in TxSplitOpcodes
       THEN IF tx_idx + 1 >= Len(steps)
            THEN \* break, then return cfg
                 /\ tx_pc' = "returned"
                 /\ UNCHANGED <<tx_cfg, tx_processed, tx_idx, tx_current>>
            ELSE LET next_step == steps[tx_idx + 2]
                     next_key == TxFindBaseBlock(all_blocks, next_step.address, next_step.pc)
                 IN  IF next_key = NoNode
                     THEN \* warn, advance, continue
                          /\ tx_idx' = tx_idx + 1
                          /\ UNCHANGED <<tx_pc, tx_cfg, tx_processed, tx_current>>
                     ELSE /\ tx_cfg' = AddEdge(TxNextNode(tx_cfg, tx_processed, next_key),
                                               tx_current, next_key,
                                               TxGetEdgeType(current_opcode))
                          /\ tx_processed' = tx_processed \cup {next_key}
                          /\ tx_current' = next_key
                          /\ tx_idx' = tx_idx + 1
                          /\ UNCHANGED tx_pc
       ELSE /\ tx_idx' = tx_idx + 1
            /\ UNCHANGED <<tx_pc, tx_cfg, tx_processed, tx_current>>
    /\ UNCHANGED <<steps, all_blocks>>
    /\ UNCHANGED ctVars
    /\ UNCHANGED stVars
    /\ UNCHANGED mainVars
    /\ UNCHANGED tfVars

\* the loop condition fails: return cfg
TxReturn ==
    /\ tx_pc = "loop"
    /\ tx_idx >= Len(steps)
    /\ tx_pc' = "returned"
    /\ UNCHANGED <<tx_cfg, tx_processed, tx_idx, tx_current>>
    /\ UNCHANGED <<steps, all_blocks>>
    /\ UNCHANGED ctVars
    /\ UNCHANGED stVars
    /\ UNCHANGED mainVars
    /\ UNCHANGED tfVars

\* ------------------------------------------------------------------------
\* cfg_contract.py: ContractCFGConnector

CtSplitOpcodes ==
    {"JUMP", "JUMPI", "CALL", "CALLCODE", "DELEGATECALL", "STATICCALL",
     "CREATE", "CREATE2", "STOP", "RETURN", "REVERT", "INVALID", "SELFdestruct"}

CtGetEdgeType(opcode) ==
    IF opcode \in {"JUMP", "JUMPI"} THEN "JUMP"
    ELSE IF opcode \in {"CALL", "CALLCODE", "DELEGATECALL", "STATICCALL"} THEN "CALL"
    ELSE IF opcode \in {"RETURN", "REVERT"} THEN "RETURN"
    ELSE IF opcode = "SELFDESTRUCT" THEN "DESTRUCT"
    ELSE IF opcode \in {"STOP", "INVALID"} THEN "TERMINATE"
    ELSE IF opcode \in {"CREATE", "CREATE2"} THEN "CREATE"
    ELSE "UNKNOWN"

\* the blocks of a list that carry the address, in order
BlocksOf(blocks, address) ==
    SeqFilter(blocks, {b \in Range(blocks) : b.address = address})

\* the steps of a list that carry the address, in order
StepsOf(stepList, address) ==
    SeqFilter(stepList, {s \in Range(stepList) : s.address = address})

\* pc_to_start_pc[(address, at)]: the start_pc of the last block listing an
\* instruction at that pc, "KeyError" when no block lists one
PcToStartPc(blocks, address, at) ==
    LET hits == {i \in 1..Len(blocks) :
                    /\ blocks[i].address = address
                    /\ \E j \in 1..Len(blocks[i].instructions) :
                           blocks[i].instructions[j][1] = at}
    IN  IF hits = {} THEN "KeyError"
        ELSE blocks[CHOOSE i \in hits : \A k \in hits : k <= i].start_pc

\* _find_base_block: the key of the block found, NoNode for its ValueError
CtFindBaseBlock(blocks, address, start) ==
    IF <<address, start>> \in BlockKeys(blocks) THEN <<address, start>> ELSE NoNode

\* the try block of connect_contract_cfg: the block holding the step's pc,
\* NoNode for KeyError and ValueError
CtLookup(blocks, step) ==
    LET start == PcToStartPc(blocks, step.address, step.pc) IN
    IF start = "KeyError" THEN NoNode ELSE CtFindBaseBlock(blocks, step.address, start)

\* the cfg after the next node is reused from processed_nodes or created
CtNextNode(cfg, processed, key) ==
    IF key \in processed THEN cfg ELSE AddNode(cfg, key)

\* the addresses main builds a per-contract CFG for
ExtractContracts(stepList) == {s.address : s \in {t \in Range(stepList) : t.address # ""}}

\* main's loop body for one contract: the contract's blocks and steps, the
\* connector, and connect_contract_cfg up to its loop
CtStart ==
    /\ tx_pc \in {"returned", "raised"}
    /\ ct_pc = "start"
    /\ \E contract_addr \in ExtractContracts(steps) :
         LET contract_blocks == BlocksOf(all_blocks, contract_addr)
             contract_steps == StepsOf(steps, contract_addr)
             address == IF contract_blocks # <<>> THEN contract_blocks[1].address ELSE ""
             cfg == NewCFG("contract_" \o address)
         IN  /\ contract_blocks # <<>>
             /\ ct_address' = address
             /\ ct_steps' = contract_steps
             /\ IF contract_steps = <<>>
                THEN /\ ct_pc' = "returned"
                     /\ ct_cfg' = cfg
                     /\ UNCHANGED <<ct_processed, ct_current>>
                ELSE LET first == CtLookup(contract_blocks, contract_steps[1]) IN
                     IF first = NoNode
                     THEN /\ ct_pc' = "raised"
                          /\ ct_cfg' = cfg
                          /\ UNCHANGED <<ct_processed, ct_current>>
                     ELSE /\ ct_pc' = "loop"
                          /\ ct_cfg' = AddNode(cfg, first)
                          /\ ct_processed' = ct_processed \cup {first}
                          /\ ct_current' = first
             /\ UNCHANGED ct_idx
    /\ UNCHANGED <<steps, all_blocks>>
    /\ UNCHANGED txVars
    /\ UNCHANGED stVars
    /\ UNCHANGED mainVars
    /\ UNCHANGED tfVars

\* the iteration whose skip branch continues without "current_step_idx += 1"
CtIterate_SkipStays ==
    /\ ct_pc = "loop"
    /\ ct_idx < Len(ct_steps)
    /\ LET current_opcode == ct_steps[ct_idx + 1].opcode
           contract_blocks == BlocksOf(all_blocks, ct_address)
       IN
       IF current_opcode \in CtSplitOpcodes
       THEN IF ct_idx + 1 >= Len(ct_steps)
            THEN \* break, then return cfg
                 /\ ct_pc' = "returned"
                 /\ UNCHANGED <<ct_cfg, ct_processed, ct_idx, ct_current>>
            ELSE LET next_key == CtLookup(contract_blocks, ct_steps[ct_idx + 2]) IN
                 IF next_key = NoNode
                 THEN \* warn, continue
                      /\ UNCHANGED <<ct_pc, ct_cfg, ct_processed, ct_idx, ct_current>>
                 ELSE /\ ct_cfg' = AddEdge(CtNextNode(ct_cfg, ct_processed, next_key),
                                           ct_current, next_key,
                                           CtGetEdgeType(current_opcode))
                      /\ ct_processed' = ct_processed \cup {next_key}
                      /\ ct_current' = next_key
                      /\ ct_idx' = ct_idx + 1
                      /\ UNCHANGED ct_pc
       ELSE /\ ct_idx' = ct_idx + 1
            /\ UNCHANGED <<ct_pc, ct_cfg, ct_processed, ct_current>>
    /\ UNCHANGED <<ct_address, ct_steps>>
    /\ UNCHANGED <<steps, all_blocks>>
    /\ UNCHANGED txVars
    /\ UNCHANGED stVars
    /\ UNCHANGED mainVars
    /\ UNCHANGED tfVars

\* one iteration of connect_contract_cfg's while loop
CtIterate ==
    /\ ct_pc = "loop"
    /\ ct_idx < Len(ct_steps)
    /\ LET current_opcode == ct_steps[ct_idx + 1].opcode
           contract_blocks == BlocksOf(all_blocks, ct_address)
       IN
       IF current_opcode \in CtSplitOpcodes
       THEN IF ct_idx + 1 >= Len(ct_steps)
            THEN \* break, then return cfg
                 /\ ct_pc' = "returned"
                 /\ UNCHANGED <<ct_cfg, ct_processed, ct_idx, ct_current>>
            ELSE LET next_key == CtLookup(contract_blocks, ct_steps[ct_idx + 2]) IN
                 IF next_key = NoNode
                 THEN \* warn, advance, continue
                      /\ ct_idx' = ct_idx + 1
                      /\ UNCHANGED <<ct_pc, ct_cfg, ct_processed, ct_current>>
                 ELSE /\ ct_cfg' = AddEdge(CtNextNode(ct_cfg, ct_processed, next_key),
                                           ct_current, next_key,
                                           CtGetEdgeType(current_opcode))
                      /\ ct_processed' = ct_processed \cup {next_key}
                      /\ ct_current' = next_key
                      /\ ct_idx' = ct_idx + 1
                      /\ UNCHANGED ct_pc
       ELSE /\ ct_idx' = ct_idx + 1
            /\ UNCHANGED <<ct_pc, ct_cfg, ct_processed, ct_current>>
    /\ UNCHANGED <<ct_address, ct_steps>>
    /\ UNCHANGED <<steps, all_blocks>>
    /\ UNCHANGED txVars
    /\ UNCHANGED stVars
    /\ UNCHANGED mainVars
    /\ UNCHANGED tfVars

\* the loop condition fails: return cfg
CtReturn ==
    /\ ct_pc = "loop"
    /\ ct_idx >= Len(ct_steps)
    /\ ct_pc' = "returned"
    /\ UNCHANGED <<ct_address, ct_steps, ct_cfg, ct_processed, ct_idx, ct_current>>
    /\ UNCHANGED <<steps, all_blocks>>
    /\ UNCHANGED txVars
    /\ UNCHANGED stVars
    /\ UNCHANGED mainVars
    /\ UNCHANGED tfVars

\* ------------------------------------------------------------------------
\* cfg_static_complete.py: SimpleStackValueAnalyzer

\* Optional[int]: a target pc, or None
Target(value) == [known |-> TRUE, value |-> value]
None == [known |-> FALSE, value |-> 0]

\* Python's floor division num2 // num1, num1 not zero
FloorDiv(num2, num1) ==
    IF num1 > 0 THEN num2 \div num1 ELSE (0 - num2) \div (0 - num1)

\* the operands taken the other way round: the popped top on the left
Arith_TopLeft(name, num1, num2) ==
    IF name = "ADD" THEN num1 + num2
    ELSE IF name = "SUB" THEN num1 - num2
    ELSE IF name = "MUL" THEN num1 * num2
    ELSE IF num2 = 0 THEN 0 ELSE FloorDiv(num1, num2)

\* the result pushed by ADD, SUB, MUL, DIV; num1 was on top, num2 below it
Arith(name, num1, num2) ==
    IF name = "ADD" THEN num2 + num1
    ELSE IF name = "SUB" THEN num2 - num1
    ELSE IF name = "MUL" THEN num2 * num1
    ELSE IF num1 = 0 THEN 0 ELSE FloorDiv(num2, num1)

\* "if stack: return stack[-1] else: return None"; the list's end is the top
StackTop(stack) == IF stack # <<>> THEN Target(stack[Len(stack)]) ELSE None

\* the order in which get_jump_target visits the instructions before the jump
Reversed(s) == [i \in 1..Len(s) |-> s[Len(s) + 1 - i]]
ScanOrder(prefix) == Reversed(prefix)

\* what DUPn appends: stack[n - 1] of the Python list
DupValue(stack, n) == stack[n]

RECURSIVE Simulate(_, _)
\* the for loop of get_jump_target over the instructions still to visit
Simulate(todo, stack) ==
    IF todo = <<>> THEN StackTop(stack)
    ELSE LET instr == Head(todo)
             size == Len(stack)
         IN
         IF IsPush(instr.name)
         THEN Simulate(Tail(todo), Append(stack, instr.operand))
         ELSE IF IsDup(instr.name)
         THEN LET n == NameIndex(DupNames, instr.name) IN
              IF size >= n
              THEN Simulate(Tail(todo), Append(stack, DupValue(stack, n)))
              ELSE None
         ELSE IF IsSwap(instr.name)
         THEN LET n == NameIndex(SwapNames, instr.name) IN
              IF size >= n + 1
              THEN Simulate(Tail(todo),
                            [stack EXCEPT ![size] = stack[size - n],
                                          ![size - n] = stack[size]])
              ELSE None
         ELSE IF instr.name = "POP"
         THEN IF stack # <<>>
              THEN Simulate(Tail(todo), SubSeq(stack, 1, size - 1))
              ELSE None
         ELSE IF instr.name \in {"ADD", "SUB", "MUL", "DIV"}
         THEN IF size >= 2
              THEN Simulate(Tail(todo),
                            Append(SubSeq(stack, 1, size - 2),
                                   Arith(instr.name, stack[size], stack[size - 1])))
              ELSE None
         ELSE \* any other instruction: break
              StackTop(stack)

\* instr_by_pc.get(jump_pc): the index of the instruction at that pc, 0 if none
InstrIndex(instrs, at) ==
    IF \E i \in 1..Len(instrs) : instrs[i].pc = at
    THEN CHOOSE i \in 1..Len(instrs) : instrs[i].pc = at
    ELSE 0

GetJumpTarget(instrs, jump_pc) ==
    LET at == InstrIndex(instrs, jump_pc) IN
    IF at = 0 \/ instrs[at].name \notin {"JUMP", "JUMPI"} THEN None
    ELSE Simulate(ScanOrder(SubSeq(instrs, 1, at - 1)), <<>>)

\* ------------------------------------------------------------------------
\* cfg_static_complete.py: StaticCompleteCFGBuilder

\* the edge type map before SEQUENCE and the two CONDITION kinds were added
StGetEdgeType_NoConditions(opcode) ==
    CASE opcode = "JUMP" -> "JUMP"
      [] opcode = "JUMPI" -> "JUMPI"
      [] opcode = "CALL" -> "CALL"
      [] opcode = "CALLCODE" -> "CALL"
      [] opcode = "DELEGATECALL" -> "DELEGATECALL"
      [] opcode = "STATICCALL" -> "STATICCALL"
      [] opcode = "RETURN" -> "RETURN"
      [] opcode = "REVERT" -> "REVERT"
      [] opcode = "SELFDESTRUCT" -> "DESTRUCT"
      [] opcode = "STOP" -> "TERMINATE"
      [] opcode = "INVALID" -> "INVALID"
      [] opcode = "CREATE" -> "CREATE"
      [] opcode = "CREATE2" -> "CREATE"
      [] OTHER -> "UNKNOWN"

\* _get_edge_type of StaticCompleteCFGBuilder
StGetEdgeType(opcode) ==
    CASE opcode = "JUMP" -> "JUMP"
      [] opcode = "JUMPI" -> "JUMPI"
      [] opcode = "CALL" -> "CALL"
      [] opcode = "CALLCODE" -> "CALL"
      [] opcode = "DELEGATECALL" -> "DELEGATECALL"
      [] opcode = "STATICCALL" -> "STATICCALL"
      [] opcode = "RETURN" -> "RETURN"
      [] opcode = "REVERT" -> "REVERT"
      [] opcode = "SELFDESTRUCT" -> "DESTRUCT"
      [] opcode = "STOP" -> "TERMINATE"
      [] opcode = "INVALID" -> "INVALID"
      [] opcode = "CREATE" -> "CREATE"
      [] opcode = "CREATE2" -> "CREATE"
      [] opcode = "SEQUENCE" -> "SEQUENCE"
      [] opcode = "CONDITION_TRUE" -> "CONDITION_TRUE"
      [] opcode = "CONDITION_FALSE" -> "CONDITION_FALSE"
      [] OTHER -> "UNKNOWN"

\* _get_opcode_length without its PUSH branch
StGetOpcodeLength_One(opcode) == 1

\* _get_opcode_length: 1 + n for PUSHn, 1 for any other opcode
StGetOpcodeLength(opcode) ==
    IF IsPush(opcode) THEN 1 + NameIndex(PushNames, opcode) ELSE 1

\* _connect_blocks without its last line: the counter never moves
StConnectBlocks_NoCount(cfg, current_node, next_node, edge_type) ==
    [cfg EXCEPT
        !.edges = Append(@, [edge_id |-> cfg.next_edge_id, source |-> current_node,
                             target |-> next_node, edge_type |-> edge_type])]

\* _connect_blocks: append an edge carrying cfg._next_edge_id, then count up
StConnectBlocks(cfg, current_node, next_node, edge_type) ==
    [cfg EXCEPT
        !.edges = Append(@, [edge_id |-> cfg.next_edge_id, source |-> current_node,
                             target |-> next_node, edge_type |-> edge_type]),
        !.next_edge_id = @ + 1]

\* _find_block_by_pc: the key of the block holding the pc, NoNode for its
\* ValueError
StFindBlockByPc(blocks, address, at) ==
    LET start == PcToStartPc(blocks, address, at) IN
    IF start = "KeyError" THEN NoNode
    ELSE IF <<address, start>> \in BlockKeys(blocks) THEN <<address, start>> ELSE NoNode

\* an edge to the block holding the pc, when there is one in node_map
StEdgeTo(cfg, blocks, nodes, current_node, at, kind, selfLoops) ==
    LET key == StFindBlockByPc(blocks, current_node[1], ToHex(at)) IN
    IF key # NoNode /\ key \in nodes /\ (selfLoops \/ key # current_node)
    THEN StConnectBlocks(cfg, current_node, key, StGetEdgeType(kind))
    ELSE cfg

\* the edge to the analyzer's target without "if target_node != current_node"
StTargetEdge_SelfLoops(cfg, blocks, nodes, current_node, target, kind) ==
    IF target.known
    THEN StEdgeTo(cfg, blocks, nodes, current_node, target.value, kind, TRUE)
    ELSE cfg

\* the edge to the analyzer's target, if it names one
StTargetEdge(cfg, blocks, nodes, current_node, target, kind) ==
    IF target.known
    THEN StEdgeTo(cfg, blocks, nodes, current_node, target.value, kind, FALSE)
    ELSE cfg

\* the body of build_static_cfg's second loop for one block
StOutEdges(cfg, blocks, nodes, instrs, block) ==
    LET current_node == <<block.address, block.start_pc>>
        last == block.instructions[Len(block.instructions)]
        terminator_opcode == last[2]
        pc_int == FromHex(last[1])
        next_pc_int == pc_int + StGetOpcodeLength(terminator_opcode)
    IN
    IF terminator_opcode = "JUMPI"
    THEN StTargetEdge(
             StEdgeTo(cfg, blocks, nodes, current_node, next_pc_int, "CONDITION_FALSE", TRUE),
             blocks, nodes, current_node, GetJumpTarget(instrs, pc_int), "CONDITION_TRUE")
    ELSE IF terminator_opcode = "JUMP"
    THEN StTargetEdge(cfg, blocks, nodes, current_node, GetJumpTarget(instrs, pc_int), "JUMP")
    ELSE IF terminator_opcode \in {"STOP", "RETURN", "REVERT", "INVALID", "SELFDESTRUCT"}
    THEN cfg
    ELSE IF terminator_opcode \in {"CALL", "CALLCODE", "DELEGATECALL", "STATICCALL",
                                   "CREATE", "CREATE2"}
    THEN StEdgeTo(cfg, blocks, nodes, current_node, next_pc_int, terminator_opcode, TRUE)
    ELSE StEdgeTo(cfg, blocks, nodes, current_node, next_pc_int, "SEQUENCE", TRUE)

\* the block a node wraps (node.base_block)
BaseBlock(blocks, node) ==
    blocks[CHOOSE i \in 1..Len(blocks) : <<blocks[i].address, blocks[i].start_pc>> = node]

\* the incoming-edge scan looking at edge.source instead of edge.target
HasIncomingEdge_Source(cfg, node) == \E i \in 1..Len(cfg.edges) : cfg.edges[i].source = node

\* the inner loop of remove_unreachable_instruction_blocks for one node
HasIncomingEdge(cfg, node) == \E i \in 1..Len(cfg.edges) : cfg.edges[i].target = node

\* the test without its JUMPDEST exemption
IsUnreachable_NoJumpdest(cfg, blocks, node) ==
    /\ ~HasIncomingEdge(cfg, node)
    /\ BaseBlock(blocks, node).start_pc # "0x0"
    /\ BaseBlock(blocks, node).instructions # <<>>

\* the test of remove_unreachable_instruction_blocks for one node
IsUnreachable(cfg, blocks, node) ==
    /\ ~HasIncomingEdge(cfg, node)
    /\ BaseBlock(blocks, node).start_pc # "0x0"
    /\ BaseBlock(blocks, node).instructions # <<>>
    /\ BaseBlock(blocks, node).instructions[1][2] # "JUMPDEST"

RECURSIVE RemoveAll(_, _)
\* cfg.remove_node for every node of the list
RemoveAll(cfg, nodes) ==
    IF nodes = <<>> THEN cfg ELSE RemoveAll(RemoveNode(cfg, Head(nodes)), Tail(nodes))

\* to_remove collected twice: the scan repeated on the graph left by the
\* first removal
ToRemove_TwoPasses(cfg, blocks) ==
    LET first == SeqFilter(cfg.nodes, {n \in Range(cfg.nodes) : IsUnreachable(cfg, blocks, n)})
        left == RemoveAll(cfg, first)
    IN first \o SeqFilter(left.nodes, {n \in Range(left.nodes) : IsUnreachable(left, blocks, n)})

\* to_remove: the unreachable nodes, in the order of cfg.nodes
ToRemove(cfg, blocks) ==
    SeqFilter(cfg.nodes, {n \in Range(cfg.nodes) : IsUnreachable(cfg, blocks, n)})

\* build_static_cfg's first loop: one node per block
StAddNodes ==
    /\ st_pc = "start"
    /\ st_pc' = "edges"
    /\ st_cfg' = [st_cfg EXCEPT !.nodes =
                     [i \in 1..Len(all_blocks) |-> <<all_blocks[i].address, all_blocks[i].start_pc>>]]
    /\ node_map' = BlockKeys(all_blocks)
    /\ UNCHANGED <<instructions, st_idx, sva_calls>>
    /\ UNCHANGED <<steps, all_blocks>>
    /\ UNCHANGED txVars
    /\ UNCHANGED ctVars
    /\ UNCHANGED mainVars
    /\ UNCHANGED tfVars

\* build_static_cfg's second loop, one block
StConnect ==
    /\ st_pc = "edges"
    /\ st_idx < Len(all_blocks)
    /\ LET block == all_blocks[st_idx + 1]
           last == block.instructions[Len(block.instructions)]
       IN  /\ st_cfg' = StOutEdges(st_cfg, all_blocks, node_map, instructions, block)
           /\ sva_calls' = IF last[2] \in {"JUMP", "JUMPI"}
                           THEN Append(sva_calls,
                                       <<FromHex(last[1]),
                                         GetJumpTarget(instructions, FromHex(last[1]))>>)
                           ELSE sva_calls
    /\ st_idx' = st_idx + 1
    /\ UNCHANGED <<st_pc, instructions, node_map>>
    /\ UNCHANGED <<steps, all_blocks>>
    /\ UNCHANGED txVars
    /\ UNCHANGED ctVars
    /\ UNCHANGED mainVars
    /\ UNCHANGED tfVars

\* remove_unreachable_instruction_blocks, then return cfg
StPrune ==
    /\ st_pc = "edges"
    /\ st_idx >= Len(all_blocks)
    /\ LET to_remove == ToRemove(st_cfg, all_blocks) IN
       /\ st_cfg' = RemoveAll(st_cfg, to_remove)
       /\ node_map' = node_map \ Range(to_remove)
    /\ st_pc' = "returned"
    /\ UNCHANGED <<instructions, st_idx, sva_calls>>
    /\ UNCHANGED <<steps, all_blocks>>
    /\ UNCHANGED txVars
    /\ UNCHANGED ctVars
    /\ UNCHANGED mainVars
    /\ UNCHANGED tfVars

\* ------------------------------------------------------------------------
\* evm_information.py: TraceFormatter

\* a text of the node's reply: an optional "0x" and the digits after it; a
\* string of 40 hexadecimal digits is written by its first byte ("aa", "BB")
RawItem(prefixed, digits) == [prefixed |-> prefixed, digits |-> digits]
RawText(item) == (IF item.prefixed THEN "0x" ELSE "") \o item.digits

\* the digit strings that are 40 hexadecimal digits, and str.lower of them
AddressDigits == {"aa", "AA", "bb", "BB"}
Lower(digits) ==
    CASE digits = "AA" -> "aa"
      [] digits = "BB" -> "bb"
      [] OTHER -> digits

\* _normalize_address: "" for an empty text and for a text that
\* Web3.to_checksum_address rejects, else the lowercased address
NormalizeAddress(item) ==
    IF RawText(item) = "" THEN ""
    ELSE IF item.digits \in AddressDigits THEN "0x" \o Lower(item.digits)
    ELSE ""

\* _normalize_pc
NormalizePc(pc) == ToHex(pc)

\* _normalize_stack: "0x" for an empty item, the item if it starts with
\* "0x", else the item after "0x"
NormalizeStack(raw_stack) ==
    [i \in 1..Len(raw_stack) |->
        IF RawText(raw_stack[i]) = "" THEN "0x"
        ELSE IF raw_stack[i].prefixed THEN RawText(raw_stack[i])
        ELSE "0x" \o RawText(raw_stack[i])]

\* str.upper of an opcode name
Upper(op) ==
    CASE op = "staticcall" -> "STATICCALL"
      [] op = "stop" -> "STOP"
      [] OTHER -> op

TfCallOpcodes == {"CALL", "CALLCODE", "DELEGATECALL", "STATICCALL"}
TfCreateOpcodes == {"CREATE", "CREATE2"}
TfStopOpcodes == {"STOP", "RETURN", "REVERT", "INVALID", "SELFDESTRUCT"}

\* call_stack at the start of the loop, from initial_address
InitialCallStack(initial_address) ==
    IF initial_address # "" THEN <<initial_address>> ELSE <<>>

\* the callee read from the top of the stack, raw_stack[-1]
TfCallee_Top(raw_stack) ==
    IF Len(raw_stack) >= 2 THEN NormalizeAddress(raw_stack[Len(raw_stack)]) ELSE ""

\* the callee a call step names: raw_stack[-2] normalized, "" if the stack
\* is too short
TfCallee(raw_stack) ==
    IF Len(raw_stack) >= 2 THEN NormalizeAddress(raw_stack[Len(raw_stack) - 1]) ELSE ""

\* call_stack after the branches of the loop body
TfCallStackAfter(opcode, raw_stack, current, stack) ==
    IF opcode \in TfCallOpcodes
    THEN IF TfCallee(raw_stack) # "" THEN Append(stack, current) ELSE stack
    ELSE IF opcode \in TfCreateOpcodes THEN stack
    ELSE IF opcode \in TfStopOpcodes /\ Len(stack) > 1
    THEN SubSeq(stack, 1, Len(stack) - 1)
    ELSE stack

\* next_address with the halting branch taken whenever call_stack is not empty
TfNextAddress_PopsLast(opcode, raw_stack, current, next, stack) ==
    IF opcode \in TfCallOpcodes
    THEN IF TfCallee(raw_stack) # "" THEN TfCallee(raw_stack) ELSE next
    ELSE IF opcode \in TfCreateOpcodes THEN next
    ELSE IF opcode \in TfStopOpcodes /\ Len(stack) >= 1 THEN stack[Len(stack)]
    ELSE current

\* next_address after the branches of the loop body
TfNextAddress(opcode, raw_stack, current, next, stack) ==
    IF opcode \in TfCallOpcodes
    THEN IF TfCallee(raw_stack) # "" THEN TfCallee(raw_stack) ELSE next
    ELSE IF opcode \in TfCreateOpcodes THEN next
    ELSE IF opcode \in TfStopOpcodes /\ Len(stack) > 1 THEN stack[Len(stack)]
    ELSE current

\* get_standardized_trace up to its loop: the trace is fetched, or the
\* request raises and the exception reaches main's except clause
TfStart ==
    /\ main_pc = "get_standardized_trace"
    /\ \E fetched \in BOOLEAN :
         IF fetched
         THEN LET initial_address == NormalizeAddress(tx_to) IN
              /\ current_address' = initial_address
              /\ next_address' = initial_address
              /\ call_stack' = InitialCallStack(initial_address)
              /\ main_pc' = "trace_loop"
              /\ UNCHANGED main_error
         ELSE /\ main_pc' = "except"
              /\ main_error' = "request_blocking"
              /\ UNCHANGED <<current_address, next_address, call_stack>>
    /\ UNCHANGED <<tx_to, struct_logs, tf_idx, tf_steps, tf_stacks, exit_code>>
    /\ UNCHANGED <<steps, all_blocks>>
    /\ UNCHANGED txVars
    /\ UNCHANGED ctVars
    /\ UNCHANGED stVars

\* one iteration of get_standardized_trace's loop over struct_logs
TfStep ==
    /\ main_pc = "trace_loop"
    /\ tf_idx < Len(struct_logs)
    /\ LET step == struct_logs[tf_idx + 1]
           opcode == Upper(step.op)
           raw_stack == step.stack
       IN  /\ call_stack' = TfCallStackAfter(opcode, raw_stack, current_address, call_stack)
           /\ next_address' = TfNextAddress(opcode, raw_stack, current_address,
                                            next_address, call_stack)
           /\ tf_steps' = Append(tf_steps, [address |-> current_address,
                                            pc |-> NormalizePc(step.pc),
                                            opcode |-> opcode,
                                            stack |-> NormalizeStack(raw_stack)])
    /\ current_address' = next_address'
    /\ tf_stacks' = Append(tf_stacks, call_stack)
    /\ tf_idx' = tf_idx + 1
    /\ UNCHANGED <<tx_to, struct_logs>>
    /\ UNCHANGED mainVars
    /\ UNCHANGED <<steps, all_blocks>>
    /\ UNCHANGED txVars
    /\ UNCHANGED ctVars
    /\ UNCHANGED stVars

\* what construct_cfg reads of a step: address, pc and opcode
StepRead(step) == [address |-> step.address, pc |-> step.pc, opcode |-> step.opcode]

\* the loop is over: get_standardized_trace returns the trace to main
TfReturn ==
    /\ main_pc = "trace_loop"
    /\ tf_idx >= Len(struct_logs)
    /\ steps' = [i \in 1..Len(tf_steps) |-> StepRead(tf_steps[i])]
    /\ main_pc' = "get_all_contracts_bytecode"
    /\ UNCHANGED <<main_error, exit_code>>
    /\ UNCHANGED all_blocks
    /\ UNCHANGED tfVars
    /\ UNCHANGED txVars
    /\ UNCHANGED ctVars
    /\ UNCHANGED stVars

\* ------------------------------------------------------------------------
\* A builder run on its own: no main, no trace formatter

MainIdle == main_pc = "idle" /\ main_error = "" /\ exit_code = -1

TfIdle ==
    /\ tx_to = ""
    /\ struct_logs = <<>>
    /\ tf_idx = 0
    /\ current_address = ""
    /\ next_address = ""
    /\ call_stack = <<>>
    /\ tf_steps = <<>>
    /\ tf_stacks = <<>>

\* ------------------------------------------------------------------------
\* The inputs of the dynamic builders

\* two contracts and their codes; 0xaa has two blocks, 0xbb has one
AddrA == "0xaa"
AddrB == "0xbb"
CodeA == <<Ins("JUMPDEST", 0), Ins("JUMP", 0), Ins("STOP", 0)>>
CodeB == <<Ins("STOP", 0)>>

\* process_multiple_contracts: the blocks of every contract, in order
DynBlocks ==
    Partition(AddrA, Disassemble(CodeA, 0)) \o Partition(AddrB, Disassemble(CodeB, 0))

\* where a step can be: the start of a block, inside a block, outside the
\* code, in the other contract
StepPlaces ==
    {<<AddrA, ToHex(0)>>, <<AddrA, ToHex(1)>>, <<AddrA, ToHex(2)>>,
     <<AddrA, ToHex(3)>>, <<AddrB, ToHex(0)>>}

\* every terminator and one opcode that is none
AllOpcodes == BlockTerminators \cup {"PUSH1"}
\* one opcode per way the two builders treat an opcode
SomeOpcodes == {"JUMP", "SELFDESTRUCT", "PUSH1"}

StepsOver(opcodes) ==
    {[address |-> p[1], pc |-> p[2], opcode |-> o] : p \in StepPlaces, o \in opcodes}

\* the traces explored: every trace of at most MaxSteps steps over the
\* representative opcodes, every pair of steps over all the opcodes, and
\* every trace of at most MaxWalk steps that all end a block
Traces ==
    SeqsUpTo(StepsOver(SomeOpcodes), MaxSteps)
        \cup {<<s, t>> : s \in StepsOver(AllOpcodes), t \in StepsOver(AllOpcodes)}
        \cup SeqsUpTo(StepsOver({"JUMP"}), MaxWalk)

InitDyn ==
    /\ steps \in Traces
    /\ all_blocks = DynBlocks
    /\ tx_pc = "start"
    /\ tx_cfg = NewCFG("0xtx")
    /\ tx_processed = {}
    /\ tx_idx = 0
    /\ tx_current = NoNode
    /\ ct_pc = "start"
    /\ ct_address = ""
    /\ ct_steps = <<>>
    /\ ct_cfg = NewCFG("contract_")
    /\ ct_processed = {}
    /\ ct_idx = 0
    /\ ct_current = NoNode
    /\ st_pc = "idle"
    /\ instructions = <<>>
    /\ st_cfg = NewCFG("static_complete_")
    /\ node_map = {}
    /\ st_idx = 0
    /\ sva_calls = <<>>
    /\ MainIdle
    /\ TfIdle

NextDyn == TxStart \/ TxIterate \/ TxReturn \/ CtStart \/ CtIterate \/ CtReturn

SpecDyn == InitDyn /\ [][NextDyn]_vars

\* the interpreter runs the builder that was called until it returns or
\* raises: a step that can be taken is taken
SpecDynFair == SpecDyn /\ WF_vars(NextDyn)

\* ------------------------------------------------------------------------
\* main.py: main, from the trace to the transaction CFG and to the exit

\* process_multiple_contracts over the bytecode of the contracts of the
\* trace: their blocks
ContractBlocks(contracts) ==
    SeqFilter(DynBlocks, {b \in Range(DynBlocks) : b.address \in contracts})

\* TraceFormatter(PROVIDER_URL): connected, or ConnectionError
MainConnect ==
    /\ main_pc = "start"
    /\ \E connected \in BOOLEAN :
         IF connected
         THEN main_pc' = "get_standardized_trace" /\ UNCHANGED main_error
         ELSE main_pc' = "except" /\ main_error' = "ConnectionError"
    /\ UNCHANGED exit_code
    /\ UNCHANGED <<steps, all_blocks>>
    /\ UNCHANGED tfVars
    /\ UNCHANGED txVars
    /\ UNCHANGED ctVars
    /\ UNCHANGED stVars

\* steps 2 to 5 of main up to the call of construct_cfg: the bytecode of the
\* trace's contracts is fetched and split into blocks, or the fetch raises
MainBlocks ==
    /\ main_pc = "get_all_contracts_bytecode"
    /\ \E fetched \in BOOLEAN :
         IF fetched
         THEN /\ all_blocks' = ContractBlocks(ExtractContracts(steps))
              /\ tx_pc' = "start"
              /\ main_pc' = "construct_cfg"
              /\ UNCHANGED main_error
         ELSE /\ main_pc' = "except"
              /\ main_error' = "get_code"
              /\ UNCHANGED <<all_blocks, tx_pc>>
    /\ UNCHANGED <<tx_cfg, tx_processed, tx_idx, tx_current>>
    /\ UNCHANGED <<steps, exit_code>>
    /\ UNCHANGED tfVars
    /\ UNCHANGED ctVars
    /\ UNCHANGED stVars

\* construct_cfg raised: its RuntimeError reaches main's except clause
MainRaised ==
    /\ main_pc = "construct_cfg"
    /\ tx_pc = "raised"
    /\ main_pc' = "except"
    /\ main_error' = "RuntimeError"
    /\ UNCHANGED exit_code
    /\ UNCHANGED <<steps, all_blocks>>
    /\ UNCHANGED tfVars
    /\ UNCHANGED txVars
    /\ UNCHANGED ctVars
    /\ UNCHANGED stVars

\* construct_cfg returned: steps 6 to 12 of main (the per-contract and the
\* static CFGs, the files written), any of which may raise
MainRest ==
    /\ main_pc = "construct_cfg"
    /\ tx_pc = "returned"
    /\ \E raised \in BOOLEAN :
         IF raised
         THEN main_pc' = "except" /\ main_error' = "Exception"
         ELSE main_pc' = "done" /\ UNCHANGED main_error
    /\ UNCHANGED exit_code
    /\ UNCHANGED <<steps, all_blocks>>
    /\ UNCHANGED tfVars
    /\ UNCHANGED txVars
    /\ UNCHANGED ctVars
    /\ UNCHANGED stVars

\* "except Exception as e: print(...)": main returns and the process ends
\* as after any return of main, with status 0
MainExcept ==
    /\ main_pc = "except"
    /\ main_pc' = "exited"
    /\ exit_code' = 0
    /\ UNCHANGED main_error
    /\ UNCHANGED <<steps, all_blocks>>
    /\ UNCHANGED tfVars
    /\ UNCHANGED txVars
    /\ UNCHANGED ctVars
    /\ UNCHANGED stVars

\* main returns after its last print, the process ends
MainDone ==
    /\ main_pc = "done"
    /\ main_pc' = "exited"
    /\ exit_code' = 0
    /\ UNCHANGED main_error
    /\ UNCHANGED <<steps, all_blocks>>
    /\ UNCHANGED tfVars
    /\ UNCHANGED txVars
    /\ UNCHANGED ctVars
    /\ UNCHANGED stVars

\* ------------------------------------------------------------------------
\* The inputs of main: the transaction's destination and its raw trace

\* the "to" field: the checksummed address of 0xaa, or None for a
\* transaction that creates a contract
Destinations == {RawItem(TRUE, "AA"), RawItem(FALSE, "")}

\* the stack of a call step: callee 0xbb; callee 0xaa without prefix and an
\* empty item on top; a second item that is no address; one item only
StackToB == <<RawItem(TRUE, "bb"), RawItem(TRUE, "5")>>
StackToA == <<RawItem(FALSE, "AA"), RawItem(FALSE, "")>>
StackNoAddress == <<RawItem(TRUE, "1"), RawItem(TRUE, "5")>>
StackShort == <<RawItem(TRUE, "bb")>>

\* a step of the node's reply before its depth is known
Move(pc, op, stack) == [pc |-> pc, op |-> op, stack |-> stack]

\* every kind of step: the calls with a callee, a halt and a plain step at
\* the start of a block (pc 0) and elsewhere (pc 1), the other steps at pc 0
BroadMoves ==
    {Move(pc, "CALL", stack) : pc \in {0, 1}, stack \in {StackToB, StackToA}}
      \cup {Move(pc, op, <<>>) : pc \in {0, 1}, op \in {"STOP", "PUSH1"}}
      \cup {Move(0, "CALL", stack) : stack \in {StackNoAddress, StackShort}}
      \cup {Move(0, "staticcall", StackToB), Move(0, "CREATE", <<>>)}

\* the steps that open and close frames, and one that does neither
DeepMoves ==
    {Move(0, "CALL", StackToB), Move(0, "CREATE", <<>>),
     Move(0, "STOP", <<>>), Move(0, "PUSH1", <<>>)}

\* the EVM enters a frame after a call of a contract and after a create
OpensFrame(move) ==
    \/ /\ Upper(move.op) \in TfCallOpcodes
       /\ Len(move.stack) >= 2
       /\ move.stack[Len(move.stack) - 1].digits \in AddressDigits
    \/ Upper(move.op) \in TfCreateOpcodes

\* the EVM leaves the frame after a halting instruction
ClosesFrame(move) == Upper(move.op) \in TfStopOpcodes

DepthAfter(move, depth) ==
    IF OpensFrame(move) THEN depth + 1
    ELSE IF ClosesFrame(move) THEN depth - 1
    ELSE depth

RECURSIVE WithDepth(_, _)
\* the structLogs of the moves: each step with the depth of its frame
WithDepth(moves, depth) ==
    IF moves = <<>> THEN <<>>
    ELSE <<[pc |-> Head(moves).pc, op |-> Head(moves).op,
            stack |-> Head(moves).stack, depth |-> depth]>>
         \o WithDepth(Tail(moves), DepthAfter(Head(moves), depth))

\* no step follows the halt of the outermost frame
Realistic(logs) == \A i \in 1..Len(logs) : logs[i].depth >= 1

\* the raw traces explored
RawTraces ==
    {logs \in {WithDepth(moves, 1) :
                  moves \in SeqsUpTo(BroadMoves, MaxRaw) \cup SeqsUpTo(DeepMoves, MaxDeep)} :
        Realistic(logs)}

InitTrace ==
    /\ tx_to \in Destinations
    /\ struct_logs \in RawTraces
    /\ main_pc = "start"
    /\ main_error = ""
    /\ exit_code = -1
    /\ tf_idx = 0
    /\ current_address = ""
    /\ next_address = ""
    /\ call_stack = <<>>
    /\ tf_steps = <<>>
    /\ tf_stacks = <<>>
    /\ steps = <<>>
    /\ all_blocks = <<>>
    /\ tx_pc = "idle"
    /\ tx_cfg = NewCFG("0xtx")
    /\ tx_processed = {}
    /\ tx_idx = 0
    /\ tx_current = NoNode
    /\ ct_pc = "idle"
    /\ ct_address = ""
    /\ ct_steps = <<>>
    /\ ct_cfg = NewCFG("contract_")
    /\ ct_processed = {}
    /\ ct_idx = 0
    /\ ct_current = NoNode
    /\ st_pc = "idle"
    /\ instructions = <<>>
    /\ st_cfg = NewCFG("static_complete_")
    /\ node_map = {}
    /\ st_idx = 0
    /\ sva_calls = <<>>

NextTrace ==
    \/ MainConnect \/ TfStart \/ TfStep \/ TfReturn \/ MainBlocks
    \/ TxStart \/ TxIterate \/ TxReturn
    \/ MainRaised \/ MainRest \/ MainExcept \/ MainDone

SpecTrace == InitTrace /\ [][NextTrace]_vars

\* ------------------------------------------------------------------------
\* The inputs of the static builder

\* the immediates pushed: pc 0, and pc 3 where "PUSH1 3, JUMP, JUMPDEST" lands
PushValues == {0, 3}

CodeAlphabet ==
    {Ins("PUSH1", v) : v \in PushValues}
        \cup {Ins(name, 0) : name \in {"JUMP", "JUMPI", "JUMPDEST", "STOP", "CALL", "ADD"}}

\* scenario S2: 6001 6008 57 00 5B 00
CodeS2 ==
    <<Ins("PUSH1", 1), Ins("PUSH1", 8), Ins("JUMPI", 0), Ins("STOP", 0),
      Ins("JUMPDEST", 0), Ins("STOP", 0)>>

\* every terminator, and three opcodes that are none: a block's first
\* instruction, a one-byte instruction and a PUSH with a two-byte immediate
LastOpcodes == BlockTerminators \cup {"JUMPDEST", "ADD", "PUSH2"}

\* every code of two instructions over those opcodes
CodePairs == {<<Ins(a, 0), Ins(b, 0)>> : a \in LastOpcodes, b \in LastOpcodes}

\* the runs of at most MaxPushes PUSH1 instructions
PushRuns ==
    {[i \in 1..Len(values) |-> Ins("PUSH1", values[i])] :
        values \in SeqsUpTo(PushValues, MaxPushes)}

\* a DUP1..DUPMaxDup at pc 0, a run of pushes and a JUMP: get_jump_target
\* visits the pushes from the last to the first and then the DUP
DupCodes ==
    {<<Ins(DupNames[n], 0)>> \o pushes \o <<Ins("JUMP", 0)>> :
        n \in 1..MaxDup, pushes \in PushRuns}

\* the immediates pushed in front of an arithmetic opcode: a zero divisor,
\* and two values whose quotient and difference depend on the order
ArithValues == {0, 3, 7}

\* the runs of at most MaxPushes PUSH1 instructions over those immediates
ArithRuns ==
    {[i \in 1..Len(values) |-> Ins("PUSH1", values[i])] :
        values \in SeqsUpTo(ArithValues, MaxPushes)}

\* ADD, SUB, MUL or DIV at pc 0, a run of pushes and a JUMP: get_jump_target
\* visits the pushes from the last to the first and then the arithmetic
ArithCodes ==
    {<<Ins(name, 0)>> \o pushes \o <<Ins("JUMP", 0)>> :
        name \in {"ADD", "SUB", "MUL", "DIV"}, pushes \in ArithRuns}

\* the codes explored: every non-empty code of at most MaxCode instructions
\* over the alphabet, the scenario, the pairs, and the codes with a DUP or
\* an arithmetic opcode in front of pushes
Codes ==
    (SeqsUpTo(CodeAlphabet, MaxCode) \ {<<>>}) \cup {CodeS2} \cup CodePairs
        \cup DupCodes \cup ArithCodes

InitStatic ==
    /\ \E code \in Codes :
         /\ instructions = Disassemble(code, 0)
         /\ all_blocks = Partition(AddrA, Disassemble(code, 0))
    /\ steps = <<>>
    /\ tx_pc = "idle"
    /\ tx_cfg = NewCFG("0xtx")
    /\ tx_processed = {}
    /\ tx_idx = 0
    /\ tx_current = NoNode
    /\ ct_pc = "idle"
    /\ ct_address = ""
    /\ ct_steps = <<>>
    /\ ct_cfg = NewCFG("contract_")
    /\ ct_processed = {}
    /\ ct_idx = 0
    /\ ct_current = NoNode
    /\ st_pc = "start"
    /\ st_cfg = NewCFG("static_complete_" \o AddrA)
    /\ node_map = {}
    /\ st_idx = 0
    /\ sva_calls = <<>>
    /\ MainIdle
    /\ TfIdle

NextStatic == StAddNodes \/ StConnect \/ StPrune

SpecStatic == InitStatic /\ [][NextStatic]_vars

\* every builder on every input
Init == InitDyn \/ InitStatic
Next == NextDyn \/ NextStatic
Spec == Init /\ [][Next]_vars

\* ------------------------------------------------------------------------
\* What the claims speak of

\* the thirteen terminator opcodes
Terminators ==
    {"JUMP", "JUMPI", "CALL", "CALLCODE", "DELEGATECALL", "STATICCALL",
     "RETURN", "REVERT", "SELFDESTRUCT", "STOP", "INVALID", "CREATE", "CREATE2"}

\* the step's (address, pc) is the (address, start_pc) of a block
KnownBlock(step) ==
    \E i \in 1..Len(all_blocks) :
        all_blocks[i].address = step.address /\ all_blocks[i].start_pc = step.pc

\* step i has a terminator opcode and step i + 1 exists in a known block
IsTransition(i) ==
    /\ i + 1 <= Len(steps)
    /\ steps[i].opcode \in Terminators
    /\ KnownBlock(steps[i + 1])

RECURSIVE TransitionsFrom(_)
\* the transitions at positions i and later, in trace order
TransitionsFrom(i) ==
    IF i >= Len(steps) THEN <<>>
    ELSE (IF IsTransition(i) THEN <<i>> ELSE <<>>) \o TransitionsFrom(i + 1)

\* the edge kind each terminator stands for
KindOf(opcode) ==
    CASE opcode \in {"JUMP", "JUMPI"} -> "JUMP"
      [] opcode \in {"CALL", "CALLCODE", "DELEGATECALL", "STATICCALL"} -> "CALL"
      [] opcode \in {"RETURN", "REVERT"} -> "RETURN"
      [] opcode = "SELFDESTRUCT" -> "DESTRUCT"
      [] opcode \in {"STOP", "INVALID"} -> "TERMINATE"
      [] opcode \in {"CREATE", "CREATE2"} -> "CREATE"

NoDuplicates(s) == \A i, j \in 1..Len(s) : s[i] = s[j] => i = j

\* edge IDs are 0, 1, .., E - 1 in list order
Contiguous(cfg) == \A k \in 1..Len(cfg.edges) : cfg.edges[k].edge_id = k - 1

\* edge IDs grow along the list and stay below the counter
Increasing(cfg) ==
    /\ \A k \in 1..Len(cfg.edges) :
          cfg.edges[k].edge_id >= 0 /\ cfg.edges[k].edge_id < cfg.next_edge_id
    /\ \A k \in 1..(Len(cfg.edges) - 1) :
          cfg.edges[k].edge_id < cfg.edges[k + 1].edge_id

\* every edge joins two nodes of the cfg
Closed(cfg) ==
    \A k \in 1..Len(cfg.edges) :
        cfg.edges[k].source \in Range(cfg.nodes) /\ cfg.edges[k].target \in Range(cfg.nodes)

HasEdge(cfg, source, target, kind) ==
    \E k \in 1..Len(cfg.edges) :
        /\ cfg.edges[k].source = source
        /\ cfg.edges[k].target = target
        /\ cfg.edges[k].edge_type = kind

\* block i starts at pc 0; block i begins with JUMPDEST
StartsAtZero(i) == FromHex(all_blocks[i].instructions[1][1]) = 0
StartsWithJumpdest(i) == all_blocks[i].instructions[1][2] = "JUMPDEST"
NodeOf(i) == <<all_blocks[i].address, all_blocks[i].start_pc>>
NoIncoming(cfg, node) == \A k \in 1..Len(cfg.edges) : cfg.edges[k].target # node

\* ------------------------------------------------------------------------
\* C1: when construct_cfg returns, the number of edges equals the number of
\* positions i whose step has a terminator opcode and whose next step exists
\* and resolves to a known block; a terminator with an unknown successor and
\* a non-terminator add no edge.
C1_EdgeCount ==
    tx_pc = "returned" =>
        Len(tx_cfg.edges) = Cardinality({i \in 1..Len(steps) : IsTransition(i)})

\* a returned walk that added an edge and skipped a terminator's unknown
\* successor
C1_Witness ==
    /\ tx_pc = "returned"
    /\ Len(tx_cfg.edges) >= 1
    /\ \E i \in 1..(Len(steps) - 1) :
          steps[i].opcode \in Terminators /\ ~KnownBlock(steps[i + 1])

\* C2: the k-th edge of the transaction CFG carries the kind of the k-th
\* transition's opcode (JUMP, CALL, RETURN, DESTRUCT, TERMINATE, CREATE), and
\* every transition, whichever of the thirteen terminators makes it, has its
\* edge.
C2_EdgeKinds ==
    tx_pc = "returned" =>
        LET transitions == TransitionsFrom(1) IN
        /\ Len(tx_cfg.edges) = Len(transitions)
        /\ \A k \in 1..Len(transitions) :
              tx_cfg.edges[k].edge_type = KindOf(steps[transitions[k]].opcode)

\* a SELFDESTRUCT step followed by a step in a known block, and its edge
C2_Witness ==
    /\ tx_pc = "returned"
    /\ \E i \in 1..Len(steps) : IsTransition(i) /\ steps[i].opcode = "SELFDESTRUCT"
    /\ \E k \in 1..Len(tx_cfg.edges) : tx_cfg.edges[k].edge_type = "DESTRUCT"

\* C3: on a step list of one contract both dynamic builders return the same
\* nodes and the same edges, for every terminator opcode.  Stated for the
\* step lists whose steps all sit at the start of a block, where looking a
\* block up by start_pc and by any of its pcs finds the same block.
C3_BuildersAgree ==
    (/\ tx_pc = "returned"
     /\ ct_pc = "returned"
     /\ \A i \in 1..Len(steps) : steps[i].address = ct_address /\ KnownBlock(steps[i]))
    => /\ ct_cfg.nodes = tx_cfg.nodes
       /\ ct_cfg.edges = tx_cfg.edges

\* C4: at every point of either dynamic walk the CFG holds at most one node
\* per (contract_address, start_pc): a block entered again is the node it was.
C4_OneNodePerBlock ==
    /\ NoDuplicates(tx_cfg.nodes)
    /\ NoDuplicates(ct_cfg.nodes)

\* both walks have entered a block a second time: an edge whose target was
\* a node already
C4_Witness ==
    /\ Len(tx_cfg.edges) >= 1
    /\ Len(tx_cfg.edges) >= Len(tx_cfg.nodes)
    /\ Len(ct_cfg.edges) >= 1
    /\ Len(ct_cfg.edges) >= Len(ct_cfg.nodes)

\* C5 as stated: in the CFG each of the three builders returns, the edge IDs
\* are 0, 1, .., E - 1 in insertion order.
C5_Original ==
    /\ tx_pc = "returned" => Contiguous(tx_cfg)
    /\ ct_pc = "returned" => Contiguous(ct_cfg)
    /\ st_pc = "returned" => Contiguous(st_cfg)

\* C5 amended: the edge IDs are 0, 1, .., E - 1 in insertion order in the CFGs
\* the two dynamic builders return and in the static CFG up to its pruning;
\* in the CFG the static builder returns the remaining edges keep their IDs,
\* which grow in list order and stay below the edge counter.
C5_EdgeIds ==
    /\ tx_pc = "returned" => Contiguous(tx_cfg)
    /\ ct_pc = "returned" => Contiguous(ct_cfg)
    /\ st_pc = "edges" => Contiguous(st_cfg)
    /\ st_pc = "returned" => Increasing(st_cfg)

\* a static CFG returned with an edge left whose ID is not its position
C5_Witness ==
    /\ st_pc = "returned"
    /\ st_cfg.edges # <<>>
    /\ ~Contiguous(st_cfg)

\* C6: in the CFG of each of the three builders every edge's source and
\* target are nodes of that CFG, also after pruning removed nodes.
C6_EdgesClosed ==
    /\ Closed(tx_cfg)
    /\ Closed(ct_cfg)
    /\ Closed(st_cfg)

\* a static CFG returned after pruning removed a node and its edges, with
\* edges left
C6_Witness ==
    /\ st_pc = "returned"
    /\ Len(st_cfg.nodes) < Len(all_blocks)
    /\ Len(st_cfg.edges) < st_cfg.next_edge_id
    /\ st_cfg.edges # <<>>

\* C7: the CFG build_static_cfg returns has a node for the block at pc 0 and
\* for every block that begins with JUMPDEST.
C7_EntryAndJumpdestKept ==
    st_pc = "returned" =>
        \A i \in 1..Len(all_blocks) :
            (StartsAtZero(i) \/ StartsWithJumpdest(i)) => NodeOf(i) \in Range(st_cfg.nodes)

\* a JUMPDEST block past pc 0 that no edge enters is kept while pruning
\* removed another node
C7_Witness ==
    /\ st_pc = "returned"
    /\ Len(st_cfg.nodes) < Len(all_blocks)
    /\ \E i \in 1..Len(all_blocks) :
          /\ StartsWithJumpdest(i)
          /\ ~StartsAtZero(i)
          /\ NoIncoming(st_cfg, NodeOf(i))
          /\ NodeOf(i) \in Range(st_cfg.nodes)

\* C8 as stated: the CFG build_static_cfg returns has no node that is not at
\* pc 0, does not begin with JUMPDEST and has no incoming edge.
C8_Original ==
    st_pc = "returned" =>
        \A i \in 1..Len(all_blocks) :
            (~StartsAtZero(i) /\ ~StartsWithJumpdest(i) /\ NoIncoming(st_cfg, NodeOf(i)))
                => NodeOf(i) \notin Range(st_cfg.nodes)

\* C8 amended: a block that is not at pc 0, does not begin with JUMPDEST and
\* has no incoming edge among the edges synthesized before pruning is absent
\* from the CFG build_static_cfg returns.
C8_PrunedWhenUnreached ==
    [][(st_pc = "edges" /\ st_pc' = "returned") =>
          \A i \in 1..Len(all_blocks) :
              (~StartsAtZero(i) /\ ~StartsWithJumpdest(i) /\ NoIncoming(st_cfg, NodeOf(i)))
                  => NodeOf(i) \notin Range(st_cfg'.nodes)]_vars

\* pruning has removed a node
C8_Witness ==
    /\ st_pc = "returned"
    /\ \E i \in 1..Len(all_blocks) : NodeOf(i) \notin Range(st_cfg.nodes)

\* the three blocks of scenario S2
S2Given == instructions = Disassemble(CodeS2, 0)
S2JumpiBlock == <<AddrA, "0x0">>
S2StopBlock == <<AddrA, "0x5">>
S2JumpdestBlock == <<AddrA, "0x6">>

\* C9 as stated: for S2 the static CFG has a CONDITION_FALSE edge from the
\* JUMPI block to the first STOP block and a CONDITION_TRUE edge from the
\* JUMPI block to the JUMPDEST block.
C9_Original ==
    (st_pc = "returned" /\ S2Given) =>
        /\ HasEdge(st_cfg, S2JumpiBlock, S2StopBlock, "CONDITION_FALSE")
        /\ HasEdge(st_cfg, S2JumpiBlock, S2JumpdestBlock, "CONDITION_TRUE")

\* C9 amended: for S2 the static CFG has the three blocks as nodes and one
\* edge, the CONDITION_FALSE edge from the JUMPI block to the first STOP
\* block; it has no CONDITION_TRUE edge.
C9_S2Edges ==
    (st_pc = "returned" /\ S2Given) =>
        /\ st_cfg.nodes = <<S2JumpiBlock, S2StopBlock, S2JumpdestBlock>>
        /\ HasEdge(st_cfg, S2JumpiBlock, S2StopBlock, "CONDITION_FALSE")
        /\ Len(st_cfg.edges) = 1
        /\ \A k \in 1..Len(st_cfg.edges) : st_cfg.edges[k].edge_type # "CONDITION_TRUE"

\* build_static_cfg has returned for S2
C9_Witness == st_pc = "returned" /\ S2Given /\ Len(all_blocks) = 3

\* the analyzer's supported opcodes
Supported(name) ==
    IsPush(name) \/ IsDup(name) \/ IsSwap(name) \/ name \in {"POP", "ADD", "SUB", "MUL", "DIV"}

RECURSIVE ForwardTop(_, _)
\* the top of the abstract stack after the instructions in forward order
\* (the stack's top is its last element); None once an instruction
\* underflows or is not supported, and when the stack ends empty
ForwardTop(todo, stack) ==
    IF todo = <<>>
    THEN IF stack = <<>> THEN None ELSE Target(stack[Len(stack)])
    ELSE LET name == Head(todo).name
             size == Len(stack)
             rest == Tail(todo)
         IN
         IF IsPush(name) THEN ForwardTop(rest, Append(stack, Head(todo).operand))
         ELSE IF IsDup(name) /\ size >= NameIndex(DupNames, name)
         THEN ForwardTop(rest, Append(stack, stack[size + 1 - NameIndex(DupNames, name)]))
         ELSE IF IsSwap(name) /\ size >= NameIndex(SwapNames, name) + 1
         THEN ForwardTop(rest,
                  [stack EXCEPT ![size] = stack[size - NameIndex(SwapNames, name)],
                                ![size - NameIndex(SwapNames, name)] = stack[size]])
         ELSE IF name = "POP" /\ size >= 1
         THEN ForwardTop(rest, SubSeq(stack, 1, size - 1))
         ELSE IF name \in {"ADD", "SUB", "MUL", "DIV"} /\ size >= 2
         THEN LET deeper == stack[size - 1]
                  top == stack[size]
                  result == CASE name = "ADD" -> deeper + top
                              [] name = "SUB" -> deeper - top
                              [] name = "MUL" -> deeper * top
                              [] name = "DIV" -> IF top = 0 THEN 0
                                                 ELSE IF top > 0 THEN deeper \div top
                                                 ELSE (0 - deeper) \div (0 - top)
              IN  ForwardTop(rest, Append(SubSeq(stack, 1, size - 2), result))
         ELSE None

\* the instructions before the jump at pc J
Before(J) == SubSeq(instructions, 1, InstrIndex(instructions, J) - 1)

\* the target the forward simulation gives for the jump at pc J
ForwardTarget(J) == ForwardTop(Before(J), <<>>)

\* C10: get_jump_target(J), for a JUMP or JUMPI at J with only supported
\* instructions before it, is the top of the stack the instructions before J
\* leave when simulated in forward order from an empty stack, and unknown if
\* that stack is empty.
C10_ForwardOrder ==
    \A k \in 1..Len(sva_calls) :
        (\A i \in 1..Len(Before(sva_calls[k][1])) : Supported(Before(sva_calls[k][1])[i].name))
            => sva_calls[k][2] = ForwardTarget(sva_calls[k][1])

\* the jump site at pc J has an instruction before it that the analyzer
\* does not support
HasUnsupported(J) == \E i \in 1..Len(Before(J)) : ~Supported(Before(J)[i].name)

\* the node of the block holding the jump at pc J
SiteNode(J) == StFindBlockByPc(all_blocks, AddrA, ToHex(J))

\* the static CFG has a JUMP or CONDITION_TRUE edge leaving the site at pc J
HasTargetEdge(J) ==
    \E e \in 1..Len(st_cfg.edges) :
        /\ st_cfg.edges[e].source = SiteNode(J)
        /\ st_cfg.edges[e].edge_type \in {"JUMP", "CONDITION_TRUE"}

\* C11: whenever the instructions get_jump_target scans for a jump site
\* include an opcode outside the supported set, the result is unknown
\* (None) whatever the abstract stack holds, and the static CFG has no JUMP
\* or CONDITION_TRUE edge for that site.
C11_UnsupportedGivesNone ==
    \A k \in 1..Len(sva_calls) :
        HasUnsupported(sva_calls[k][1]) =>
            /\ sva_calls[k][2] = None
            /\ ~HasTargetEdge(sva_calls[k][1])

\* the last instruction of block i, as its (pc, opcode) pair
LastOf(i) == all_blocks[i].instructions[Len(all_blocks[i].instructions)]

\* the pc right after the last instruction of block i
PcAfter(i) == FromHex(LastOf(i)[1]) + ByteLength(LastOf(i)[2])

\* the blocks holding an instruction at the pc
BlocksHolding(at) ==
    {j \in 1..Len(all_blocks) :
        \E m \in 1..Len(all_blocks[j].instructions) :
            all_blocks[j].instructions[m][1] = ToHex(at)}

\* the edges of a CFG that leave a node
OutEdges(cfg, node) == {e \in Range(cfg.edges) : e.source = node}

\* the kind of the fall-through edge after a last instruction that is
\* neither a jump nor a halt
FallThroughKind(opcode) ==
    CASE opcode \in {"CALL", "CALLCODE"} -> "CALL"
      [] opcode = "DELEGATECALL" -> "DELEGATECALL"
      [] opcode = "STATICCALL" -> "STATICCALL"
      [] opcode \in {"CREATE", "CREATE2"} -> "CREATE"
      [] OTHER -> "SEQUENCE"

\* the opcodes after which nothing follows
Halts == {"STOP", "RETURN", "REVERT", "INVALID", "SELFDESTRUCT"}

\* C12: before pruning, a block whose last instruction is not JUMP or JUMPI
\* has no outgoing edge if that instruction is STOP, RETURN, REVERT, INVALID
\* or SELFDESTRUCT or if no block holds the pc after it; otherwise it has
\* exactly one outgoing edge, to the block holding that pc, of kind CALL for
\* CALL and CALLCODE, DELEGATECALL for DELEGATECALL, STATICCALL for
\* STATICCALL, CREATE for CREATE and CREATE2 and SEQUENCE for anything else.
C12_FallThroughEdges ==
    st_pc = "edges" =>
        \A i \in 1..st_idx :
            LastOf(i)[2] \notin {"JUMP", "JUMPI"} =>
                LET out == OutEdges(st_cfg, NodeOf(i)) IN
                IF LastOf(i)[2] \in Halts \/ BlocksHolding(PcAfter(i)) = {}
                THEN out = {}
                ELSE /\ Cardinality(out) = 1
                     /\ \A e \in out :
                          /\ \E j \in BlocksHolding(PcAfter(i)) : e.target = NodeOf(j)
                          /\ e.edge_type = FallThroughKind(LastOf(i)[2])

\* every block has its edges, and among them are a SEQUENCE edge after a
\* PUSH2 and a DELEGATECALL or CREATE edge
C12_Witness ==
    /\ st_pc = "edges"
    /\ st_idx = Len(all_blocks)
    /\ \E i \in 1..st_idx :
         /\ LastOf(i)[2] \in {"PUSH2", "DELEGATECALL", "CREATE2"}
         /\ OutEdges(st_cfg, NodeOf(i)) # {}

\* C13: the static CFG never has a self-loop: no edge, of a jump or of a
\* fall-through, has the same node as source and target, while the CFG is
\* built and when it is returned.
C13_NoSelfLoops ==
    \A e \in 1..Len(st_cfg.edges) : st_cfg.edges[e].source # st_cfg.edges[e].target

\* build_static_cfg has returned and the analyzer had resolved a jump to a
\* pc of the jump's own block
C13_Witness ==
    /\ st_pc = "returned"
    /\ \E k \in 1..Len(sva_calls) :
         /\ sva_calls[k][2].known
         /\ StFindBlockByPc(all_blocks, AddrA, ToHex(sva_calls[k][2].value))
                = SiteNode(sva_calls[k][1])

\* the step's pc is the pc of an instruction of a block of its contract
HeldByBlock(step) ==
    \E i \in 1..Len(all_blocks) :
        /\ all_blocks[i].address = step.address
        /\ \E m \in 1..Len(all_blocks[i].instructions) :
               all_blocks[i].instructions[m][1] = step.pc

\* C14 as stated: no build raises, wherever in the trace the step that
\* belongs to no known block stands, the first step included.
C14_Original == tx_pc # "raised" /\ ct_pc # "raised"

\* C14 amended: a dynamic builder raises exactly when the first step it is
\* given belongs to no block it can find (construct_cfg: the step's pc starts
\* no block; connect_contract_cfg: no block of the contract holds the pc);
\* a later step of that kind is skipped and the walk goes on to the end of
\* the steps before it returns; build_static_cfg returns after it has
\* visited every block.
C14_RaisesOnlyAtFirstStep ==
    /\ tx_pc = "raised" => (steps # <<>> /\ ~KnownBlock(steps[1]))
    /\ (tx_pc \in {"loop", "returned"} /\ steps # <<>>) => KnownBlock(steps[1])
    /\ (tx_pc = "returned" /\ steps # <<>>) => tx_idx >= Len(steps) - 1
    /\ ct_pc = "raised" => (ct_steps # <<>> /\ ~HeldByBlock(ct_steps[1]))
    /\ (ct_pc \in {"loop", "returned"} /\ ct_steps # <<>>) => HeldByBlock(ct_steps[1])
    /\ (ct_pc = "returned" /\ ct_steps # <<>>) => ct_idx >= Len(ct_steps) - 1
    /\ st_pc = "returned" => st_idx = Len(all_blocks)

\* construct_cfg has returned from a trace in which a step after a
\* terminator, not the first step, starts no known block
C14_Witness ==
    /\ tx_pc = "returned"
    /\ \E i \in 2..Len(steps) :
         ~KnownBlock(steps[i]) /\ steps[i - 1].opcode \in Terminators

\* the claims' opcode families
CallFamily == {"CALL", "CALLCODE", "DELEGATECALL", "STATICCALL"}
CreateFamily == {"CREATE", "CREATE2"}
HaltFamily == {"STOP", "RETURN", "REVERT", "INVALID", "SELFDESTRUCT"}

\* C15: in the trace get_standardized_trace emits, two consecutive steps
\* with different address labels are separated by a control transfer: the
\* earlier step's opcode is of the CALL family or the CREATE family, or it
\* is a halting opcode read while the call stack held more than one entry.
C15_LabelsChangeAtTransfers ==
    \A i \in 1..(Len(tf_steps) - 1) :
        tf_steps[i].address # tf_steps[i + 1].address =>
            \/ tf_steps[i].opcode \in CallFamily \cup CreateFamily
            \/ tf_steps[i].opcode \in HaltFamily /\ Len(tf_stacks[i]) > 1

\* the emitted trace changes its label after a call and changes it again
\* after a halting opcode
C15_Witness ==
    \E i, j \in 1..(Len(tf_steps) - 1) :
        /\ tf_steps[i].address # tf_steps[i + 1].address
        /\ tf_steps[i].opcode \in CallFamily
        /\ tf_steps[j].address # tf_steps[j + 1].address
        /\ tf_steps[j].opcode \in HaltFamily

\* the second item from the top of raw step k's stack, as an address
SecondFromTop(k) ==
    NormalizeAddress(struct_logs[k].stack[Len(struct_logs[k].stack) - 1])

\* raw step k is a call whose second stack item from the top is an address
IsValidCall(k) ==
    /\ Upper(struct_logs[k].op) \in CallFamily
    /\ Len(struct_logs[k].stack) >= 2
    /\ SecondFromTop(k) # ""

\* raw step k has no effect on the address: neither call, create nor halt
IsPlain(k) == Upper(struct_logs[k].op) \notin CallFamily \cup CreateFamily \cup HaltFamily

\* a call step keeps the label it had before the call, and the step after it
\* carries the callee
CallLabels ==
    \A k \in 1..(Len(tf_steps) - 1) :
        IsValidCall(k) =>
            /\ tf_steps[k + 1].address = SecondFromTop(k)
            /\ k = 1 => tf_steps[k].address = NormalizeAddress(tx_to)
            /\ (k > 1 /\ IsPlain(k - 1)) => tf_steps[k].address = tf_steps[k - 1].address

\* the node of the block that holds the step's pc, NoNode if there is none
HolderNode(step) == StFindBlockByPc(all_blocks, step.address, step.pc)

\* the number of transitions at positions 1..k: the place, among the edges,
\* of the edge for the transition at k
EdgeIndex(k) == Cardinality({i \in 1..k : IsTransition(i)})

\* the step whose block is construct_cfg's current node when it reads step
\* k: the last step up to k that is the first step or follows a transition
CurrentStep(k) ==
    CHOOSE j \in 1..k :
        /\ j = 1 \/ IsTransition(j - 1)
        /\ \A i \in (j + 1)..k : ~IsTransition(i - 1)

Matching(k, j) ==
    /\ k < j
    /\ IsValidCall(k)
    /\ Upper(struct_logs[j].op) \in HaltFamily
    /\ struct_logs[j].depth = struct_logs[k].depth + 1
    /\ \A i \in (k + 1)..j : struct_logs[i].depth >= struct_logs[k].depth + 1

\* every call with a valid callee is matched by the halt of its frame
WellNested ==
    \A k \in 1..Len(struct_logs) :
        IsValidCall(k) => \E j \in 1..Len(struct_logs) : Matching(k, j)

\* call_stack after raw step j was handled (j <= tf_idx)
StackAfter(j) == IF j < Len(tf_stacks) THEN tf_stacks[j + 1] ELSE call_stack

\* after the halt of a called frame the label and the depth of the call
\* stack are those of the matching call step
ReturnsToCaller ==
    \A k, j \in 1..tf_idx :
        Matching(k, j) =>
            /\ Len(StackAfter(j)) = Len(tf_stacks[k])
            /\ j < Len(tf_steps) => tf_steps[j + 1].address = tf_steps[k].address

\* the formatter is in its loop and has read no step yet
AtLoopStart == main_pc = "trace_loop" /\ tf_idx = 0

\* C17: for every destination, also one that normalizes to the
\* empty string, the call stack starts as [destination], and in every
\* well-nested raw trace the step after the halt of a called frame carries
\* the address that was current at the matching call, the call stack being
\* as deep as before that call.
C17_RestoredAfterCall ==
    /\ AtLoopStart => call_stack = <<NormalizeAddress(tx_to)>>
    /\ WellNested => ReturnsToCaller

\* C18: the process ends with exit code 0 when the pipeline succeeded and
\* with a non-zero exit code when a stage raised (no connection, the trace
\* request failing, the first step holding no block, a later stage failing):
\* a raised error is never turned into a successful exit.
C18_ExitCode ==
    main_pc = "exited" => (exit_code = 0 <=> main_error = "")

\* the instructions that get_jump_target(jump_pc) visits, in visiting order
Visited(jump_pc) ==
    ScanOrder(SubSeq(instructions, 1, InstrIndex(instructions, jump_pc) - 1))

\* the visit is a run of pushes followed by one DUP
PushesThenDup(scan) ==
    /\ scan # <<>>
    /\ IsDup(scan[Len(scan)].name)
    /\ \A i \in 1..(Len(scan) - 1) : IsPush(scan[i].name)

\* C20: when get_jump_target has visited pushes only and then meets DUPn,
\* the DUP pushes the n-th element counted from the top of the stack built
\* by those pushes (DUP1 the last pushed), which is then the result; on
\* fewer than n elements the result is the unknown target.
C20_DupFromTop ==
    \A c \in 1..Len(sva_calls) :
        LET scan == Visited(sva_calls[c][1])
            size == Len(scan) - 1
            n == NameIndex(DupNames, scan[Len(scan)].name)
        IN PushesThenDup(scan) =>
              sva_calls[c][2] =
                  IF size >= n THEN Target(scan[size + 1 - n].operand) ELSE None

\* the block is one that the scan of the edges marks for removal: not at
\* pc 0, not beginning with JUMPDEST, and no edge of the CFG enters its node
Marked(cfg, i) == ~StartsAtZero(i) /\ ~StartsWithJumpdest(i) /\ NoIncoming(cfg, NodeOf(i))

\* C21: the nodes that build_static_cfg removes are exactly the nodes that,
\* among the edges as they stood before any removal, had no incoming edge,
\* did not start at pc 0 and did not begin with JUMPDEST; a node with an
\* incoming edge before pruning is kept, also when all its incoming edges
\* came from removed nodes.
C21_SinglePass ==
    [][(st_pc = "edges" /\ st_pc' = "returned") =>
          \A i \in 1..Len(all_blocks) :
              NodeOf(i) \notin Range(st_cfg'.nodes) <=> Marked(st_cfg, i)]_vars

\* a CFG returned after a removal with a node that a second scan would
\* remove: every edge that entered it came from a removed node
C21_Witness ==
    /\ st_pc = "returned"
    /\ Len(st_cfg.nodes) < Len(all_blocks)
    /\ \E i \in 1..Len(all_blocks) :
          /\ NodeOf(i) \in Range(st_cfg.nodes)
          /\ Marked(st_cfg, i)

\* the visit is a run of pushes followed by one of ADD, SUB, MUL, DIV
PushesThenArith(scan) ==
    /\ scan # <<>>
    /\ scan[Len(scan)].name \in {"ADD", "SUB", "MUL", "DIV"}
    /\ \A i \in 1..(Len(scan) - 1) : IsPush(scan[i].name)

\* the result with the deeper element as the left operand; the operands are
\* pushed immediates, none negative
DeeperLeft(name, deeper, top) ==
    CASE name = "ADD" -> deeper + top
      [] name = "SUB" -> deeper - top
      [] name = "MUL" -> deeper * top
      [] name = "DIV" -> IF top = 0 THEN 0 ELSE deeper \div top

\* C22: when get_jump_target has visited pushes only and then meets ADD,
\* SUB, MUL or DIV, the two topmost elements are replaced by one result
\* with the deeper one as the left operand (deeper - top, deeper // top),
\* DIV by a zero top gives 0, and that result is returned; on fewer than two
\* elements the result is the unknown target.
C22_ArithDeeperLeft ==
    \A c \in 1..Len(sva_calls) :
        LET scan == Visited(sva_calls[c][1])
            size == Len(scan) - 1
        IN PushesThenArith(scan) =>
              sva_calls[c][2] =
                  IF size >= 2
                  THEN Target(DeeperLeft(scan[size + 1].name,
                                         scan[size - 1].operand, scan[size].operand))
                  ELSE None

\* the analyzer has met DIV with a non-zero top and a larger element below
\* it, and has returned a target
C22_Witness ==
    \E c \in 1..Len(sva_calls) :
        LET scan == Visited(sva_calls[c][1])
            size == Len(scan) - 1
        IN /\ PushesThenArith(scan)
           /\ scan[size + 1].name = "DIV"
           /\ size >= 2
           /\ scan[size].operand # 0
           /\ scan[size - 1].operand > scan[size].operand
           /\ sva_calls[c][2].known

\* the edges of the CFG in the order of their IDs form one walk from the
\* first node, and every other node is entered by an edge
ConnectedWalk(cfg) ==
    /\ \A i \in 1..Len(cfg.edges) : cfg.edges[i].edge_id = i - 1
    /\ cfg.edges # <<>> => cfg.edges[1].source = cfg.nodes[1]
    /\ \A i \in 1..(Len(cfg.edges) - 1) : cfg.edges[i + 1].source = cfg.edges[i].target
    /\ \A n \in 2..Len(cfg.nodes) :
          \E i \in 1..Len(cfg.edges) : cfg.edges[i].target = cfg.nodes[n]

\* the builder skipped the transition into step k + 1 of its steps: step k
\* ends a block, step k + 1 lies in no block the builder finds
TxSkipped(k) ==
    /\ k + 1 <= Len(steps)
    /\ steps[k].opcode \in TxSplitOpcodes
    /\ TxFindBaseBlock(all_blocks, steps[k + 1].address, steps[k + 1].pc) = NoNode

\* C23: in the CFG that construct_cfg or connect_contract_cfg returns, edge
\* 0 leaves the first step's node and every later edge leaves the node the
\* edge before it entered, also when transitions into unknown blocks were
\* skipped in between; every node but the first has an incoming edge.
C23_ConnectedWalk ==
    /\ tx_pc = "returned" => ConnectedWalk(tx_cfg)
    /\ ct_pc = "returned" => ConnectedWalk(ct_cfg)

\* construct_cfg returned two edges with a skipped transition between the
\* steps that made them
C23_Witness ==
    /\ tx_pc = "returned"
    /\ Len(tx_cfg.edges) = 2
    /\ Len(steps) = 4
    /\ TxSkipped(2)
    /\ ~TxSkipped(1)
    /\ ~TxSkipped(3)

\* the builder's walk is over: it returned a CFG or raised at the first step
TxOver == tx_pc \in {"returned", "raised"}
CtOver == ct_pc \in {"returned", "raised"}

\* a step of construct_cfg's loop advances the index by one, or leaves the
\* loop at the end of the list or at a block-ending opcode in the last step
TxAdvances ==
    tx_pc = "loop" =>
        \/ tx_pc' = "loop" /\ tx_idx' = tx_idx + 1
        \/ /\ tx_pc' = "returned"
           /\ \/ tx_idx >= Len(steps)
              \/ tx_idx + 1 = Len(steps) /\ steps[Len(steps)].opcode \in BlockTerminators

\* the same for connect_contract_cfg's loop
CtAdvances ==
    ct_pc = "loop" =>
        \/ ct_pc' = "loop" /\ ct_idx' = ct_idx + 1
        \/ /\ ct_pc' = "returned"
           /\ \/ ct_idx >= Len(ct_steps)
              \/ ct_idx + 1 = Len(ct_steps)
                    /\ ct_steps[Len(ct_steps)].opcode \in BlockTerminators

\* C24: on every finite step list construct_cfg and connect_contract_cfg
\* come to an end: every iteration of the walk, the one that skips an
\* unknown successor block included, advances the step index by one, and
\* the walk stops at the end of the list or at a terminator in the last step.
C24_Terminates ==
    /\ <>TxOver
    /\ (ct_pc = "loop") ~> CtOver
    /\ [][TxAdvances /\ CtAdvances]_vars

\* both builders returned, connect_contract_cfg having skipped a transition
\* into a step that no block of its contract holds
C24_Witness ==
    /\ tx_pc = "returned"
    /\ ct_pc = "returned"
    /\ \E k \in 1..(Len(ct_steps) - 1) :
          /\ ct_steps[k].opcode \in CtSplitOpcodes
          /\ CtLookup(BlocksOf(all_blocks, ct_address), ct_steps[k + 1]) = NoNode

====
